---- MODULE Spec2Model ----
(***************************************************************************)
(* Flash programming algorithm of ch32v307-flashloader (src/src/main.rs).  *)
(*                                                                         *)
(* The image is stateless: all state lives in the registers of the flash   *)
(* controller (fmc: ctl0, stat0, addr0, key0) and of the clock controller  *)
(* (rcu: ctl, cfg0).  The host calls Init, EraseSector, ProgramPage and    *)
(* UnInit one at a time; every volatile register access of a call is one   *)
(* step, and the peripherals react between the steps.                      *)
(*                                                                         *)
(* A register is the set of the names of its bits that are set.            *)
(***************************************************************************)
EXTENDS Integers, Sequences, FiniteSets, TLC

\* ---------------------------------------------------------------- bounds
\* Busy reads of one poll loop that see the awaited bit not yet there.
MaxPolls == 1
\* Largest number of 32-bit words of one ProgramPage call.
MaxWords == 3

\* Bytes of the DeviceData section the host reads: the fields up to the
\* sector table and its first two entries.
MaxDescRead == 176

\* ------------------------------------------------------ program constants
\* A 32-bit data word is the pair <<high half, low half>> of its 16-bit
\* halves (the model checker's integers are narrower than u32).
U32(hi, lo) == <<hi, lo>>
Zero32 == U32(0, 0)

FLASH_KEY1 == U32(17767, 291)     \* 0x4567_0123
FLASH_KEY2 == U32(52719, 35243)   \* 0xCDEF_89AB

\* Bytes per stored word: `offset * 4`, `sz >> 2`.
WordBytes == 4

\* Destination addresses the host passes (dev_addr and the next sector).
FlashBase == 134217728     \* dev_addr 0x08000000
SectorSize == 1024         \* sector size 0x0400
Sector1 == FlashBase + SectorSize
Addrs == {FlashBase, Sector1}

\* Byte counts the host passes to ProgramPage: multiples of 4.
Sizes == {WordBytes * n : n \in 0..MaxWords}

\* Source buffers in RAM: byte sequences long enough for MaxWords words.
\* BufA starts 0x11, 0x22, 0x33, 0x44, ...
BufA == [i \in 1..(WordBytes * MaxWords) |-> (17 * i) % 256]
BufB == [i \in 1..(WordBytes * MaxWords) |-> (255 - 7 * i) % 256]
Buffers == {BufA, BufB}

NoArgs == [adr |-> 0, sz |-> 0, buf |-> << >>, fnc |-> 0]

VARIABLES
    ctl0,       \* fmc.ctl0: subset of {"per","pg","start","lk"}
    stat0,      \* fmc.stat0: subset of {"busy","pgerr","wperr"}
    addr0,      \* fmc.addr0
    keystate,   \* unlock keys the key register has accepted so far (0 or 1)
    rcu_ctl,    \* rcu.ctl: subset of {"irc8men","irc8mstb","pllen","pllstb"}
    rcu_cfg0,   \* rcu.cfg0: record of its fields
    pc,         \* position of the running call, "idle" between calls
    fn,         \* the entry point that is running or has just returned
    session,    \* the host's session: "closed", "open", "failed", "broken"
    args,       \* its arguments
    offset,     \* ProgramPage: loop index; Init: index of the next key
    polls,      \* busy reads of the current poll loop
    ret,        \* return value, -1 while running
    trace       \* register accesses and flash stores of the current call

vars == <<ctl0, stat0, addr0, keystate, rcu_ctl, rcu_cfg0,
          pc, fn, session, args, offset, polls, ret, trace>>

fmcvars == <<ctl0, stat0, addr0, keystate>>
rcuvars == <<rcu_ctl, rcu_cfg0>>

\* ----------------------------------------------------------------- trace
\* op: the access; bits: the bits written, read or raised; adr: an address;
\* val: the data (a 32-bit word, or the fields of rcu.cfg0).
Ev(op, bits, adr, val) == [op |-> op, bits |-> bits, adr |-> adr, val |-> val]

Log(e) == trace' = Append(trace, e)

\* ------------------------------------------------- flash controller model
\* A write to ctl0: the lock bit can be set by software but is cleared only
\* by the unlock sequence, so it survives a write of zero to it.  Any write
\* to ctl0 between the two keys invalidates the unlock sequence.
CtlAfterWrite(w) == w \cup (ctl0 \cap {"lk"})

\* write_with_zero(|w| ...): every field zero except the ones named.
WriteWithZero(setbits) == setbits

\* reset(): the documented reset value of ctl0 has only the lock bit set.
Ctl0ResetValue == {"lk"}

\* A write of v to key0.  Locked: KEY1 then KEY2 clears the lock bit, any
\* other value restarts the sequence.  Unlocked: a write of zero re-arms
\* the lock.
KeyWriteCtl(v) ==
    IF "lk" \in ctl0
    THEN IF keystate = 1 /\ v = U32(52719, 35243) THEN ctl0 \ {"lk"} ELSE ctl0
    ELSE IF v = Zero32 THEN ctl0 \cup {"lk"} ELSE ctl0

KeyWriteState(v) ==
    IF "lk" \in ctl0 /\ keystate = 0 /\ v = U32(17767, 291) THEN 1 ELSE 0

\* stat0 error bits are write-one-to-clear.
StatAfterWrite(w) == stat0 \ (w \cap {"pgerr", "wperr"})

\* ------------------------------------------------------------ initial state
TypeOK ==
    /\ session \in {"closed", "open", "failed", "broken"}
    /\ ctl0 \subseteq {"per", "pg", "start", "lk"}
    /\ stat0 \subseteq {"busy", "pgerr", "wperr"}
    /\ keystate \in 0..1
    /\ polls \in 0..MaxPolls
    /\ ret \in {-1, 0, 1}

CfgReset == [scs |-> 0, scss |-> 0, ahbpsc |-> 0, apb1psc |-> 0, apb2psc |-> 0,
             pllsel |-> FALSE, pllmf_4 |-> FALSE, pllmf_3_0 |-> 0]

\* Clock states the host may find the target in: out of reset (internal
\* oscillator running and selected, PLL off), or left by firmware running
\* from the external oscillator with the internal one switched off.
ClockStates ==
    { [ctl |-> {"irc8men", "irc8mstb"}, cfg0 |-> CfgReset],
      [ctl |-> {}, cfg0 |-> [CfgReset EXCEPT !.scs = 1, !.scss = 1]] }

\* The flash controller is in its reset state: locked, no flags.
Init ==
    /\ ctl0 = Ctl0ResetValue
    /\ stat0 = {}
    /\ addr0 = 0
    /\ keystate = 0
    /\ \E c \in ClockStates :
         /\ rcu_ctl = c.ctl
         /\ rcu_cfg0 = c.cfg0
    /\ pc = "idle"
    /\ fn = "none"
    /\ session = "closed"
    /\ args = NoArgs
    /\ offset = 0
    /\ polls = 0
    /\ ret = -1
    /\ trace = << >>

\* ------------------------------------------------------------- host calls
\* The host's session is Init, then EraseSector and ProgramPage calls (and
\* Init again after a failure), then UnInit.  A call outside this order
\* breaks the session for good.  An open session is "failed" from a
\* ProgramPage that returns 1 until the next Init.
NextSession(f) ==
    IF session = "broken" THEN "broken"
    ELSE IF f = "Init" THEN "open"
    ELSE IF session = "closed" THEN "broken"
    ELSE IF f = "UnInit" THEN "closed"
    ELSE session

AfterFailure == IF session = "open" THEN "failed" ELSE session

\* Every call starts by noting the flash control register and the clock
\* registers it finds.
Enter(f, a, first) ==
    /\ fn' = f
    /\ session' = NextSession(f)
    /\ args' = a
    /\ pc' = first
    /\ offset' = 0
    /\ polls' = 0
    /\ ret' = -1
    /\ trace' = <<Ev("enter", ctl0, 0, [ctl |-> rcu_ctl, cfg0 |-> rcu_cfg0])>>
    /\ UNCHANGED <<fmcvars, rcuvars>>

Return(r) ==
    /\ pc' = "done"
    /\ ret' = r

\* The host takes the return value; the image keeps nothing across calls.
HostReturn ==
    /\ pc = "done"
    /\ pc' = "idle"
    /\ fn' = "none"
    /\ args' = NoArgs
    /\ offset' = 0
    /\ ret' = -1
    /\ trace' = << >>
    /\ UNCHANGED <<fmcvars, rcuvars, session, polls>>

\* A poll loop `while <bit not there> {}`: leave when the awaited condition
\* is read, otherwise read again.
Poll(at, awaited, next) ==
    /\ pc = at
    /\ IF awaited
       THEN /\ pc' = next
            /\ polls' = 0
       ELSE /\ polls < MaxPolls
            /\ polls' = polls + 1
            /\ pc' = at

\* ----------------------------------------------------------- EraseSector
CallEraseSector ==
    \E adr \in Addrs :
        /\ pc = "idle"
        /\ Enter("EraseSector", [NoArgs EXCEPT !.adr = adr], "e35")

E35Modify ==
    /\ pc = "e35"
    /\ ctl0' = CtlAfterWrite(ctl0 \cup {"per"})
    /\ keystate' = 0
    /\ Log(Ev("wr_ctl0", ctl0 \cup {"per"}, 0, Zero32))
    /\ pc' = "e37"
    /\ UNCHANGED <<stat0, addr0, rcuvars, fn, session, args, offset, polls, ret>>

\* fmc.ctl0.write_with_zero(|w| w.per().set_bit())
E35 ==
    /\ pc = "e35"
    /\ ctl0' = CtlAfterWrite(WriteWithZero({"per"}))
    /\ keystate' = 0
    /\ Log(Ev("wr_ctl0", WriteWithZero({"per"}), 0, Zero32))
    /\ pc' = "e37"
    /\ UNCHANGED <<stat0, addr0, rcuvars, fn, session, args, offset, polls, ret>>

E37AfterStart ==
    /\ pc = "e37"
    /\ ctl0' = CtlAfterWrite(ctl0 \cup {"start"})
    /\ stat0' = stat0 \cup {"busy"}
    /\ keystate' = 0
    /\ Log(Ev("wr_ctl0", ctl0 \cup {"start"}, 0, Zero32))
    /\ pc' = "e39"
    /\ UNCHANGED <<addr0, rcuvars, fn, session, args, offset, polls, ret>>

\* fmc.addr0.write(|w| w.addr().bits(adr))
E37 ==
    /\ pc = "e37"
    /\ addr0' = args.adr
    /\ keystate' = 0
    /\ Log(Ev("wr_addr0", {}, args.adr, Zero32))
    /\ pc' = "e39"
    /\ UNCHANGED <<ctl0, stat0, rcuvars, fn, session, args, offset, polls, ret>>

\* fmc.ctl0.modify(|_, w| w.start().set_bit()): read, set start, write back.
\* The controller starts the operation and raises busy.
E39 ==
    /\ pc = "e39"
    /\ ctl0' = CtlAfterWrite(ctl0 \cup {"start"})
    /\ stat0' = stat0 \cup {"busy"}
    /\ keystate' = 0
    /\ Log(Ev("wr_ctl0", ctl0 \cup {"start"}, 0, Zero32))
    /\ pc' = "e40"
    /\ UNCHANGED <<addr0, rcuvars, fn, session, args, offset, polls, ret>>

\* while fmc.stat0.read().busy().bit_is_set() {}
E40 ==
    /\ Poll("e40", "busy" \notin stat0, "e44")
    /\ IF "busy" \notin stat0
       THEN Log(Ev("rd_stat0", stat0, 0, Zero32))
       ELSE UNCHANGED trace
    /\ UNCHANGED <<fmcvars, rcuvars, fn, session, args, offset, ret>>

E44KeepsPer == {"per"}
E44Resets == {"lk"}

\* fmc.ctl0.write_with_zero(|w| w.per().clear_bit())
E44Value == WriteWithZero({})

E44 ==
    /\ pc = "e44"
    /\ ctl0' = CtlAfterWrite(E44Value)
    /\ keystate' = 0
    /\ Log(Ev("wr_ctl0", E44Value, 0, Zero32))
    /\ pc' = "e47a"
    /\ UNCHANGED <<stat0, addr0, rcuvars, fn, session, args, offset, polls, ret>>

\* if fmc.stat0.read().pgerr().bit_is_set() || ...
E47a ==
    /\ pc = "e47a"
    /\ Log(Ev("rd_stat0", stat0, 0, Zero32))
    /\ pc' = IF "pgerr" \in stat0 THEN "e48" ELSE "e47b"
    /\ UNCHANGED <<fmcvars, rcuvars, fn, session, args, offset, polls, ret>>

\* ... || fmc.stat0.read().wperr().bit_is_set(); else branch returns 0.
E47b ==
    /\ pc = "e47b"
    /\ Log(Ev("rd_stat0", stat0, 0, Zero32))
    /\ IF "wperr" \in stat0
       THEN /\ pc' = "e48"
            /\ UNCHANGED ret
       ELSE Return(0)
    /\ UNCHANGED <<fmcvars, rcuvars, fn, session, args, offset, polls>>

E48OnlyPgerr == {"pgerr"}

E48Locks ==
    /\ pc = "e48"
    /\ stat0' = StatAfterWrite({"pgerr", "wperr"})
    /\ ctl0' = KeyWriteCtl(Zero32)
    /\ keystate' = KeyWriteState(Zero32)
    /\ Log(Ev("wr_key0", {}, 0, Zero32))
    /\ Return(1)
    /\ UNCHANGED <<addr0, rcuvars, fn, session, args, offset, polls>>

\* fmc.stat0.write_with_zero(|w| w.pgerr().set_bit().wperr().set_bit()); 1
E48Value == WriteWithZero({"pgerr", "wperr"})

E48 ==
    /\ pc = "e48"
    /\ stat0' = StatAfterWrite(E48Value)
    /\ keystate' = 0
    /\ Log(Ev("wr_stat0", E48Value, 0, Zero32))
    /\ Return(1)
    /\ UNCHANGED <<ctl0, addr0, rcuvars, fn, session, args, offset, polls>>

\* ----------------------------------------------------------- ProgramPage
CallProgramPage ==
    \E adr \in Addrs, sz \in Sizes, buf \in Buffers :
        /\ pc = "idle"
        /\ Enter("ProgramPage", [NoArgs EXCEPT !.adr = adr, !.sz = sz, !.buf = buf],
                 "p127")

\* let sz_usize = sz >> 2
SzUsize(sz) == sz \div WordBytes

Min(a, b) == IF a < b THEN a ELSE b

\* src_slice.iter().enumerate().take(sz): the slice has sz_usize items and
\* take(sz) lets at most sz of them through.
Iterations(sz) == Min(SzUsize(sz), sz)

DstUnscaled(adr, off) == adr + off

\* let dst = (adr + offset * 4) as *mut usize  (offset counts from 0)
Dst(adr, off) == adr + off * WordBytes

ItemBigEndian(buf, off) ==
    U32(256 * buf[WordBytes * off + 1] + buf[WordBytes * off + 2],
        256 * buf[WordBytes * off + 3] + buf[WordBytes * off + 4])

\* *item: the usize at index off of the buffer, read on a little-endian
\* machine from the bytes buf[4*off .. 4*off+3].
Item(buf, off) ==
    U32(buf[WordBytes * off + 3] + 256 * buf[WordBytes * off + 4],
        buf[WordBytes * off + 1] + 256 * buf[WordBytes * off + 2])

\* fmc.ctl0.write_with_zero(|w| w.pg().set_bit())
P127 ==
    /\ pc = "p127"
    /\ ctl0' = CtlAfterWrite(WriteWithZero({"pg"}))
    /\ keystate' = 0
    /\ Log(Ev("wr_ctl0", WriteWithZero({"pg"}), 0, Zero32))
    /\ pc' = "p137"
    /\ UNCHANGED <<stat0, addr0, rcuvars, fn, session, args, offset, polls, ret>>

\* for (offset, item) in ... : next item, or fall out of the loop and
\* return 0.
P137 ==
    /\ pc = "p137"
    /\ IF offset < Iterations(args.sz)
       THEN /\ pc' = "p140"
            /\ UNCHANGED ret
       ELSE Return(0)
    /\ UNCHANGED <<fmcvars, rcuvars, fn, session, args, offset, polls, trace>>

\* unsafe { dst.write_volatile(*item) }: the word store to flash; the
\* controller starts programming and raises busy.
P140 ==
    /\ pc = "p140"
    /\ stat0' = stat0 \cup {"busy"}
    /\ Log(Ev("store", {}, Dst(args.adr, offset), Item(args.buf, offset)))
    /\ pc' = "p141"
    /\ UNCHANGED <<ctl0, addr0, keystate, rcuvars, fn, session, args, offset, polls, ret>>

\* while fmc.stat0.read().busy().bit_is_set() {}
P141 ==
    /\ Poll("p141", "busy" \notin stat0, "p145a")
    /\ IF "busy" \notin stat0
       THEN Log(Ev("rd_stat0", stat0, 0, Zero32))
       ELSE UNCHANGED trace
    /\ UNCHANGED <<fmcvars, rcuvars, fn, session, args, offset, ret>>

\* if fmc.stat0.read().pgerr().bit_is_set() || ...
P145a ==
    /\ pc = "p145a"
    /\ Log(Ev("rd_stat0", stat0, 0, Zero32))
    /\ pc' = IF "pgerr" \in stat0 THEN "p147" ELSE "p145b"
    /\ UNCHANGED <<fmcvars, rcuvars, fn, session, args, offset, polls, ret>>

WperrIgnored == FALSE

\* ... || fmc.stat0.read().wperr().bit_is_set(); no error: next iteration.
WperrSeen == "wperr" \in stat0

P145b ==
    /\ pc = "p145b"
    /\ Log(Ev("rd_stat0", stat0, 0, Zero32))
    /\ IF WperrSeen
       THEN /\ pc' = "p147"
            /\ UNCHANGED offset
       ELSE /\ pc' = "p137"
            /\ offset' = offset + 1
    /\ UNCHANGED <<fmcvars, rcuvars, fn, session, args, polls, ret>>

P147NoLock ==
    /\ pc = "p147"
    /\ Return(1)
    /\ session' = AfterFailure
    /\ UNCHANGED <<fmcvars, rcuvars, fn, args, offset, polls, trace>>

\* fmc.key0.write(|w| w.bits(0)); return 1
P147 ==
    /\ pc = "p147"
    /\ ctl0' = KeyWriteCtl(Zero32)
    /\ keystate' = KeyWriteState(Zero32)
    /\ Log(Ev("wr_key0", {}, 0, Zero32))
    /\ Return(1)
    /\ session' = AfterFailure
    /\ UNCHANGED <<stat0, addr0, rcuvars, fn, args, offset, polls>>

\* ---------------------------------------------------------------- UnInit
Fncs == {1, 2, 3}

CallUnInit ==
    \E fnc \in Fncs :
        /\ pc = "idle"
        /\ Enter("UnInit", [NoArgs EXCEPT !.fnc = fnc], "u175")

U175LocksByKey ==
    /\ pc = "u175"
    /\ ctl0' = KeyWriteCtl(Zero32)
    /\ keystate' = KeyWriteState(Zero32)
    /\ Log(Ev("wr_key0", {}, 0, Zero32))
    /\ Return(0)
    /\ UNCHANGED <<stat0, addr0, rcuvars, fn, session, args, offset, polls>>

\* fmc.ctl0.reset(); 0
U175 ==
    /\ pc = "u175"
    /\ ctl0' = CtlAfterWrite(Ctl0ResetValue)
    /\ keystate' = 0
    /\ Log(Ev("wr_ctl0", Ctl0ResetValue, 0, Zero32))
    /\ Return(0)
    /\ UNCHANGED <<stat0, addr0, rcuvars, fn, session, args, offset, polls>>

\* ------------------------------------------------------------------ Init
CallInit ==
    \E fnc \in Fncs :
        /\ pc = "idle"
        /\ Enter("Init", [NoArgs EXCEPT !.fnc = fnc], "i85")

\* rcu.ctl.modify(|_, w| w.irc8men().set_bit())
I85 ==
    /\ pc = "i85"
    /\ rcu_ctl' = rcu_ctl \cup {"irc8men"}
    /\ Log(Ev("wr_rcu_ctl", rcu_ctl \cup {"irc8men"}, 0, Zero32))
    /\ pc' = "i86"
    /\ UNCHANGED <<fmcvars, rcu_cfg0, fn, session, args, offset, polls, ret>>

\* while rcu.ctl.read().irc8mstb().bit_is_clear() {}
I86 ==
    /\ Poll("i86", "irc8mstb" \in rcu_ctl, "i87")
    /\ IF "irc8mstb" \in rcu_ctl
       THEN Log(Ev("rd_rcu_ctl", rcu_ctl, 0, Zero32))
       ELSE UNCHANGED trace
    /\ UNCHANGED <<fmcvars, rcuvars, fn, session, args, offset, ret>>

\* rcu.cfg0.modify(|_, w| w.scs().bits(0b00))
I87 ==
    /\ pc = "i87"
    /\ rcu_cfg0' = [rcu_cfg0 EXCEPT !.scs = 0]
    /\ Log(Ev("wr_rcu_cfg0", {}, 0, rcu_cfg0'))
    /\ pc' = "i88"
    /\ UNCHANGED <<fmcvars, rcu_ctl, fn, session, args, offset, polls, ret>>

IrcNotAwaited == TRUE

\* while rcu.cfg0.read().scss().bits() != 0b00 {}
IrcSelected == rcu_cfg0.scss = 0

I88 ==
    /\ Poll("i88", IrcSelected, "i89")
    /\ IF IrcSelected
       THEN Log(Ev("rd_rcu_cfg0", {}, 0, rcu_cfg0))
       ELSE UNCHANGED trace
    /\ UNCHANGED <<fmcvars, rcuvars, fn, session, args, offset, ret>>

I89Skipped ==
    /\ pc = "i89"
    /\ pc' = "i90"
    /\ UNCHANGED <<fmcvars, rcuvars, fn, session, args, offset, polls, ret, trace>>

\* rcu.ctl.modify(|_, w| w.pllen().clear_bit())
I89 ==
    /\ pc = "i89"
    /\ rcu_ctl' = rcu_ctl \ {"pllen"}
    /\ Log(Ev("wr_rcu_ctl", rcu_ctl \ {"pllen"}, 0, Zero32))
    /\ pc' = "i90"
    /\ UNCHANGED <<fmcvars, rcu_cfg0, fn, session, args, offset, polls, ret>>

\* rcu.cfg0.modify(|_, w| { ahbpsc 0b0000; apb1psc 0b100; apb2psc 0b000;
\*                          pllsel clear; pllmf_4 set; pllmf_3_0 0b1010 })
I90 ==
    /\ pc = "i90"
    /\ rcu_cfg0' = [rcu_cfg0 EXCEPT !.ahbpsc = 0, !.apb1psc = 4, !.apb2psc = 0,
                                    !.pllsel = FALSE, !.pllmf_4 = TRUE,
                                    !.pllmf_3_0 = 10]
    /\ Log(Ev("wr_rcu_cfg0", {}, 0, rcu_cfg0'))
    /\ pc' = "i99"
    /\ UNCHANGED <<fmcvars, rcu_ctl, fn, session, args, offset, polls, ret>>

\* rcu.ctl.modify(|_, w| w.pllen().set_bit())
I99 ==
    /\ pc = "i99"
    /\ rcu_ctl' = rcu_ctl \cup {"pllen"}
    /\ Log(Ev("wr_rcu_ctl", rcu_ctl \cup {"pllen"}, 0, Zero32))
    /\ pc' = "i100"
    /\ UNCHANGED <<fmcvars, rcu_cfg0, fn, session, args, offset, polls, ret>>

\* while rcu.ctl.read().pllstb().bit_is_clear() {}
I100 ==
    /\ Poll("i100", "pllstb" \in rcu_ctl, "i101")
    /\ IF "pllstb" \in rcu_ctl
       THEN Log(Ev("rd_rcu_ctl", rcu_ctl, 0, Zero32))
       ELSE UNCHANGED trace
    /\ UNCHANGED <<fmcvars, rcuvars, fn, session, args, offset, ret>>

\* rcu.cfg0.modify(|_, w| w.scs().bits(0b10))
I101 ==
    /\ pc = "i101"
    /\ rcu_cfg0' = [rcu_cfg0 EXCEPT !.scs = 2]
    /\ Log(Ev("wr_rcu_cfg0", {}, 0, rcu_cfg0'))
    /\ pc' = "i102"
    /\ UNCHANGED <<fmcvars, rcu_ctl, fn, session, args, offset, polls, ret>>

PllSelectedWrongCode == rcu_cfg0.scss = 1

\* while rcu.cfg0.read().scss().bits() != 0b10 {}
PllSelected == rcu_cfg0.scss = 2

I102 ==
    /\ Poll("i102", PllSelected, "i105")
    /\ IF PllSelected
       THEN Log(Ev("rd_rcu_cfg0", {}, 0, rcu_cfg0))
       ELSE UNCHANGED trace
    /\ UNCHANGED <<fmcvars, rcuvars, fn, session, args, offset, ret>>

LockBitClear == "lk" \notin ctl0

\* if fmc.ctl0.read().lk().bit_is_set() { ... } 0
LockBitSet == "lk" \in ctl0

I105 ==
    /\ pc = "i105"
    /\ Log(Ev("rd_ctl0", ctl0, 0, Zero32))
    /\ IF LockBitSet
       THEN /\ pc' = "i110"
            /\ UNCHANGED ret
       ELSE Return(0)
    /\ UNCHANGED <<fmcvars, rcuvars, fn, session, args, offset, polls>>

KeysSwapped == <<FLASH_KEY2, FLASH_KEY1>>

\* for key in [FLASH_KEY1, FLASH_KEY2] { fmc.key0.write(|w| w.bits(key)) }
Keys == <<FLASH_KEY1, FLASH_KEY2>>

I110 ==
    /\ pc = "i110"
    /\ offset < Len(Keys)
    /\ ctl0' = KeyWriteCtl(Keys[offset + 1])
    /\ keystate' = KeyWriteState(Keys[offset + 1])
    /\ Log(Ev("wr_key0", {}, 0, Keys[offset + 1]))
    /\ offset' = offset + 1
    /\ IF offset + 1 < Len(Keys)
       THEN /\ pc' = "i110"
            /\ UNCHANGED ret
       ELSE Return(0)
    /\ UNCHANGED <<stat0, addr0, rcuvars, fn, session, args, polls>>

\* ------------------------------------------------------- peripheral steps
\* The flash controller finishes the erase or word program it is busy with
\* and reports the outcome in the sticky error flags.
HwFlashDone ==
    /\ "busy" \in stat0
    /\ \E err \in SUBSET {"pgerr", "wperr"} :
         /\ stat0' = (stat0 \ {"busy"}) \cup err
         /\ Log(Ev("hw_done", err, 0, Zero32))
    /\ UNCHANGED <<ctl0, addr0, keystate, rcuvars, pc, fn, session, args, offset, polls, ret>>

\* The internal oscillator reports stable some time after it is enabled.
HwOscStable ==
    /\ "irc8men" \in rcu_ctl
    /\ "irc8mstb" \notin rcu_ctl
    /\ rcu_ctl' = rcu_ctl \cup {"irc8mstb"}
    /\ UNCHANGED <<fmcvars, rcu_cfg0, pc, fn, session, args, offset, polls, ret, trace>>

\* The PLL reports stable some time after it is enabled, and drops the
\* report some time after it is disabled.
HwPllStable ==
    /\ "pllen" \in rcu_ctl
    /\ "pllstb" \notin rcu_ctl
    /\ rcu_ctl' = rcu_ctl \cup {"pllstb"}
    /\ UNCHANGED <<fmcvars, rcu_cfg0, pc, fn, session, args, offset, polls, ret, trace>>

HwPllOff ==
    /\ "pllen" \notin rcu_ctl
    /\ "pllstb" \in rcu_ctl
    /\ rcu_ctl' = rcu_ctl \ {"pllstb"}
    /\ UNCHANGED <<fmcvars, rcu_cfg0, pc, fn, session, args, offset, polls, ret, trace>>

\* The clock switch status follows the selection some time after it.
HwClockSwitch ==
    /\ rcu_cfg0.scss # rcu_cfg0.scs
    /\ rcu_cfg0' = [rcu_cfg0 EXCEPT !.scss = rcu_cfg0.scs]
    /\ UNCHANGED <<fmcvars, rcu_ctl, pc, fn, session, args, offset, polls, ret, trace>>

Next ==
    \/ CallInit
    \/ I85 \/ I86 \/ I87 \/ I88 \/ I89 \/ I90 \/ I99 \/ I100 \/ I101 \/ I102
    \/ I105 \/ I110
    \/ CallEraseSector
    \/ E35 \/ E37 \/ E39 \/ E40 \/ E44 \/ E47a \/ E47b \/ E48
    \/ CallProgramPage
    \/ P127 \/ P137 \/ P140 \/ P141 \/ P145a \/ P145b \/ P147
    \/ CallUnInit
    \/ U175
    \/ HwFlashDone \/ HwOscStable \/ HwPllStable \/ HwPllOff \/ HwClockSwitch
    \/ HostReturn

Spec == Init /\ [][Next]_vars

\* ------------------------------------------------------ the loaded image
\* Symbols the image exports under #[no_mangle], each with its section
\* (the entry points carry no link_section attribute).
Exports ==
    { [name |-> "PRGDATA_Start", section |-> "PrgData"],
      [name |-> "EraseSector", section |-> ".text"],
      [name |-> "Init", section |-> ".text"],
      [name |-> "ProgramPage", section |-> ".text"],
      [name |-> "UnInit", section |-> ".text"],
      [name |-> "FlashDevice", section |-> "DeviceData"] }

\* Names the host looks up in the image.
HostSymbols ==
    <<"Init", "UnInit", "EraseSector", "ProgramPage", "PrgData_Start",
      "FlashDevice">>

\* Sections holding an exported symbol of the given name.
SectionsOf(n) == {e.section : e \in {x \in Exports : x.name = n}}

\* Little-endian bytes of a 16-bit value and of a 32-bit word.
LE16(v) == <<v % 256, v \div 256>>
LE32(w) == LE16(w[2]) \o LE16(w[1])

\* const SECTOR_END: FlashSector
SECTOR_END == [size |-> U32(65535, 65535), address |-> U32(65535, 65535)]

\* FlashSector::default()
FlashSectorDefault == [size |-> Zero32, address |-> Zero32]

\* The capacity of flash_sectors.
SectorCount == 512

\* const fn sectors(): entry 0 is the 1 KB sector at 0, entry 1 the end
\* marker, the rest defaults.  Entries are numbered from 0.
sectors(i) ==
    IF i = 0 THEN [size |-> U32(0, 1024), address |-> Zero32]
    ELSE IF i = 1 THEN SECTOR_END
    ELSE FlashSectorDefault

\* dev_name: the 31 characters of the literal, zero-padded to 128 bytes.
DevNameText ==
    <<71, 68, 51, 50, 86, 70, 49, 48, 51, 32, 49, 50, 56, 32, 75, 66, 32,
      105, 110, 116, 101, 114, 110, 97, 108, 32, 102, 108, 97, 115, 104>>

dev_name == [i \in 1..128 |-> IF i <= Len(DevNameText) THEN DevNameText[i] ELSE 0]

\* struct FlashDeviceDescription: the fields in declaration order with the
\* size and alignment of their types, and the bytes of the values that
\* static FlashDevice gives them (the sector table is read through
\* sectors).
Fields ==
    << [name |-> "vers", size |-> 2, align |-> 2, bytes |-> LE16(257)],
       [name |-> "dev_name", size |-> 128, align |-> 1, bytes |-> dev_name],
       [name |-> "dev_type", size |-> 2, align |-> 2, bytes |-> LE16(1)],
       [name |-> "dev_addr", size |-> 4, align |-> 4, bytes |-> LE32(U32(2048, 0))],
       [name |-> "device_size", size |-> 4, align |-> 4, bytes |-> LE32(U32(2, 0))],
       [name |-> "page_size", size |-> 4, align |-> 4, bytes |-> LE32(U32(0, 1024))],
       [name |-> "_reserved", size |-> 4, align |-> 4, bytes |-> LE32(Zero32)],
       [name |-> "empty", size |-> 1, align |-> 1, bytes |-> <<255>>],
       [name |-> "program_time_out", size |-> 4, align |-> 4, bytes |-> LE32(U32(0, 100))],
       [name |-> "erase_time_out", size |-> 4, align |-> 4, bytes |-> LE32(U32(0, 6000))],
       [name |-> "flash_sectors", size |-> 8 * SectorCount, align |-> 4, bytes |-> << >>] >>

AlignPacked(n, a) == n

\* #[repr(C)]: a field starts at the next multiple of its alignment.
AlignUp(n, a) == ((n + a - 1) \div a) * a

RECURSIVE FieldOffset(_)
FieldOffset(i) ==
    IF i = 1 THEN 0
    ELSE AlignUp(FieldOffset(i - 1) + Fields[i - 1].size, Fields[i].align)

\* Values a byte between two fields may have: the build leaves padding
\* unspecified.
PadBytes == {0, 255}

\* The byte of the sector table at offset k within the table.
SectorByte(k) ==
    LET e == sectors(k \div 8)
    IN  (LE32(e.size) \o LE32(e.address))[(k % 8) + 1]

\* The values the byte at offset k of static FlashDevice may have.
DescBytes(k) ==
    LET F == {i \in DOMAIN Fields :
                 FieldOffset(i) <= k /\ k < FieldOffset(i) + Fields[i].size}
    IN  IF F = {} THEN PadBytes
        ELSE LET i == CHOOSE j \in F : TRUE
             IN  IF Fields[i].name = "flash_sectors"
                 THEN {SectorByte(k - FieldOffset(i))}
                 ELSE {Fields[i].bytes[k - FieldOffset(i) + 1]}

\* The host has copied the image to RAM and has called nothing yet.
LoadInit ==
    /\ ctl0 = Ctl0ResetValue
    /\ stat0 = {}
    /\ addr0 = 0
    /\ keystate = 0
    /\ \E c \in ClockStates :
         /\ rcu_ctl = c.ctl
         /\ rcu_cfg0 = c.cfg0
    /\ pc = "load"
    /\ fn = "none"
    /\ session = "closed"
    /\ args = NoArgs
    /\ offset = 0
    /\ polls = 0
    /\ ret = -1
    /\ trace = << >>

\* The host looks up one of its symbols by name; bits: the sections in
\* which it found it, adr: the index of the name in HostSymbols.
HostFindSymbol ==
    /\ pc = "load"
    /\ offset = 0
    /\ \E i \in DOMAIN HostSymbols :
         trace' = <<Ev("sym", SectionsOf(HostSymbols[i]), i, Zero32)>>
    /\ UNCHANGED <<fmcvars, rcuvars, pc, fn, session, args, offset, polls, ret>>

\* The host reads the next byte of the DeviceData section.
HostReadByte ==
    /\ pc = "load"
    /\ offset < MaxDescRead
    /\ \E b \in DescBytes(offset) :
         trace' = <<Ev("rd_desc", {}, offset, U32(0, b))>>
    /\ offset' = offset + 1
    /\ UNCHANGED <<fmcvars, rcuvars, pc, fn, session, args, polls, ret>>

LoadNext == HostFindSymbol \/ HostReadByte

LoadSpec == LoadInit /\ [][LoadNext]_vars

\* The steps of the image itself.  The CPU runs nothing else, so a call
\* that can take a step takes it; the peripherals are assumed to finish
\* what they have started.
Step ==
    \/ I85 \/ I86 \/ I87 \/ I88 \/ I89 \/ I90 \/ I99 \/ I100 \/ I101 \/ I102
    \/ I105 \/ I110
    \/ E35 \/ E37 \/ E39 \/ E40 \/ E44 \/ E47a \/ E47b \/ E48
    \/ P127 \/ P137 \/ P140 \/ P141 \/ P145a \/ P145b \/ P147
    \/ U175

FairSpec ==
    /\ Spec
    /\ WF_vars(Step)
    /\ WF_vars(HwFlashDone)
    /\ WF_vars(HwOscStable)
    /\ WF_vars(HwPllStable)
    /\ WF_vars(HwClockSwitch)

\* ================================================================ claims
\* Positions in the trace of the accesses of one kind.
Ops(op) == {i \in DOMAIN trace : trace[i].op = op}

ErrBits == {"pgerr", "wperr"}

AtReturn(f) == pc = "done" /\ fn = f

\* The control register as the call found it.
LockedOnEntry == "lk" \in trace[1].bits

\* Positions at which the controller reported an error for an operation.
HwErrors == {i \in Ops("hw_done") : trace[i].bits # {}}

\* Number of word stores made before position i.
StoresBefore(i) == Cardinality({s \in Ops("store") : s < i})

\* C1: Init writes 0x45670123 then 0xCDEF89AB to the key register, one
\* right after the other with no flash-controller access between them, and
\* only after it has read the lock bit set; when it reads the lock bit
\* clear it never writes the key register.
C1_UnlockSequence ==
    fn = "Init" =>
        LET K == Ops("wr_key0")
            R == Ops("rd_ctl0")
        IN  /\ Cardinality(R) <= 1
            /\ K # {} => R # {}
            /\ \A r \in R :
                 /\ "lk" \notin trace[r].bits => K = {}
                 /\ K \subseteq {r + 1, r + 2}
                 /\ (r + 1) \in K => trace[r + 1].val = <<17767, 291>>
                 /\ (r + 2) \in K => trace[r + 2].val = <<52719, 35243>>
                 /\ (pc = "done" /\ "lk" \in trace[r].bits) => K = {r + 1, r + 2}
            /\ pc = "done" => (Cardinality(R) = 1 /\ ret = 0)

C1_Witness ==
    /\ AtReturn("Init")
    /\ LockedOnEntry
    /\ Cardinality(Ops("wr_key0")) = 2

\* C2: a ProgramPage that returns 1 has written 0 to the key register as
\* its last access, and the controller is locked; a ProgramPage that
\* returns 0 has not written the key register.
C2_LockOnProgramError ==
    AtReturn("ProgramPage") =>
        /\ ret = 1 => /\ trace[Len(trace)].op = "wr_key0"
                      /\ trace[Len(trace)].val = <<0, 0>>
                      /\ "lk" \in ctl0
        /\ ret = 0 => Ops("wr_key0") = {}
        /\ ret \in {0, 1}

C2_Witness ==
    /\ AtReturn("ProgramPage")
    /\ ret = 1
    /\ ~LockedOnEntry
    /\ \E i \in HwErrors : trace[i].bits = {"pgerr"}

\* C3: once the controller has reported pgerr or wperr after the k-th word
\* store, ProgramPage makes no further word store, and it returns 1 with
\* exactly k stores made.
C3_NoStoreAfterError ==
    fn = "ProgramPage" =>
        \A i \in HwErrors :
            /\ \A j \in Ops("store") : j < i
            /\ pc = "done" => /\ ret = 1
                              /\ Cardinality(Ops("store")) = StoresBefore(i)
                              /\ StoresBefore(i) >= 1
                              /\ StoresBefore(i) <= args.sz \div 4

C3_Witness ==
    /\ AtReturn("ProgramPage")
    /\ ret = 1
    /\ args.sz = 12
    /\ Cardinality(Ops("store")) = 2
    /\ \E i \in HwErrors : trace[i].bits = {"wperr"} /\ StoresBefore(i) = 2

\* C4 as stated: every ProgramPage call makes exactly sz/4 word stores.
C4_ExactlySzOver4Stores ==
    AtReturn("ProgramPage") => Cardinality(Ops("store")) = args.sz \div 4

\* The k-th word store of the call, as a position of the trace.
StoreAt(k) == CHOOSE s \in Ops("store") : StoresBefore(s) = k - 1

\* C4 (amended): ProgramPage sets the program bit exactly once, before any
\* store; its word stores go to adr, adr+4, adr+8, ... in this order, at
\* most sz/4 of them; each store is followed, before the next store or the
\* return, by a read of the status register that sees busy clear; a call
\* that returns 0 has made exactly sz/4 stores, a call that returns 1 has
\* made at least one and at most sz/4.
C4_StoreSequence ==
    (fn = "ProgramPage" /\ pc # "p127") =>
        LET S == Ops("store")
            n == Cardinality(S)
            P == {i \in Ops("wr_ctl0") : "pg" \in trace[i].bits}
        IN  /\ Cardinality(P) = 1
            /\ \A i \in P : \A s \in S : i < s
            /\ n <= args.sz \div 4
            /\ \A k \in 1..n : trace[StoreAt(k)].adr = args.adr + 4 * (k - 1)
            /\ \A k \in 1..n :
                 (k < n \/ pc = "done") =>
                    \E r \in Ops("rd_stat0") :
                       /\ r > StoreAt(k)
                       /\ k < n => r < StoreAt(k + 1)
                       /\ "busy" \notin trace[r].bits
            /\ (pc = "done" /\ ret = 0) => n = args.sz \div 4
            /\ (pc = "done" /\ ret = 1) => n >= 1

C4_Witness ==
    /\ AtReturn("ProgramPage")
    /\ ret = 0
    /\ args.sz = 12
    /\ Cardinality(Ops("store")) = 3
    /\ args.adr = 134218752

\* Flash contents left by the stores of the call: the last word stored at
\* each address written.
Programmed(a) ==
    LET S == {s \in Ops("store") : trace[s].adr = a}
    IN  trace[CHOOSE s \in S : \A t \in S : t <= s].val

\* C5: when ProgramPage returns 0, for every i below sz/4 the word stored
\* at adr+4*i is the little-endian word made of the buffer bytes
\* buf[4i..4i+3], so the programmed range holds the buffer word for word.
C5_StoresBufferWords ==
    (AtReturn("ProgramPage") /\ ret = 0) =>
        \A i \in 0..(args.sz \div 4 - 1) :
            LET a == args.adr + 4 * i
                b == args.buf
                w == << b[4 * i + 3] + 256 * b[4 * i + 4],
                        b[4 * i + 1] + 256 * b[4 * i + 2] >>
            IN  /\ \E s \in Ops("store") : trace[s].adr = a
                /\ \A s \in Ops("store") : trace[s].adr = a => trace[s].val = w
                /\ Programmed(a) = w

\* Scenario 3 of the spec: bytes 0x11 0x22 0x33 0x44 are stored as the
\* word 0x44332211 at 0x08000000.
C5_Witness ==
    /\ AtReturn("ProgramPage")
    /\ ret = 0
    /\ args.sz >= 8
    /\ \E s \in Ops("store") :
         /\ trace[s].adr = 134217728
         /\ trace[s].val = <<17459, 8721>>

\* C6: EraseSector returns with the page-erase bit of the control register
\* clear, for either return value and whatever the register held on entry.
C6_PerClearOnReturn ==
    AtReturn("EraseSector") => "per" \notin ctl0

C6_Witness ==
    /\ AtReturn("EraseSector")
    /\ ret = 1
    /\ "pg" \in trace[1].bits
    /\ \E i \in Ops("wr_ctl0") : "per" \in trace[i].bits

\* The status register as EraseSector reads it after busy has cleared.
ErrorRead == \E r \in Ops("rd_stat0") : trace[r].bits \cap ErrBits # {}

\* C7: EraseSector returns 1 exactly when the status register, read after
\* busy has cleared, has pgerr or wperr set; it then writes one to both
\* bits as its last access, which clears them; otherwise it returns 0 and
\* never writes the status register.
C7_EraseResult ==
    AtReturn("EraseSector") =>
        /\ ret = 1 <=> ErrorRead
        /\ ret = 1 => /\ trace[Len(trace)].op = "wr_stat0"
                      /\ trace[Len(trace)].bits = {"pgerr", "wperr"}
                      /\ stat0 \cap ErrBits = {}
                      /\ Cardinality(Ops("wr_stat0")) = 1
        /\ ret # 1 => (ret = 0 /\ Ops("wr_stat0") = {})
        /\ \A r \in Ops("rd_stat0") :
              /\ "busy" \notin trace[r].bits
              /\ \E d \in Ops("hw_done") : d < r

C7_Witness ==
    /\ AtReturn("EraseSector")
    /\ ret = 1
    /\ \E i \in HwErrors : trace[i].bits = {"wperr"}
    /\ \E r \in Ops("rd_stat0") : trace[r].bits = {"wperr"}

\* C8: after EraseSector or ProgramPage returns 1, pgerr and wperr are
\* both clear in the status register.
C8_ErrorBitsClearedOnFailure ==
    (pc = "done" /\ ret = 1 /\ fn \in {"EraseSector", "ProgramPage"}) =>
        stat0 \cap ErrBits = {}

\* C9: EraseSector never writes the key register, and at every point of the
\* call, its return included, the controller is locked exactly if it was
\* locked on entry.
C9_EraseKeepsLockState ==
    fn = "EraseSector" =>
        /\ Ops("wr_key0") = {}
        /\ ("lk" \in ctl0) <=> LockedOnEntry

C9_Witness ==
    /\ AtReturn("EraseSector")
    /\ ret = 1
    /\ ~LockedOnEntry
    /\ "lk" \notin ctl0

\* C10: the controller is unlocked when Init returns, whatever it was
\* before; an EraseSector, and a ProgramPage that returns 0, entered
\* unlocked return unlocked; the controller is locked when ProgramPage
\* returns 1 and when UnInit returns.
C10_LockStateMachine ==
    pc = "done" =>
        /\ fn = "Init" => "lk" \notin ctl0
        /\ (fn = "EraseSector" /\ ~LockedOnEntry) => "lk" \notin ctl0
        /\ (fn = "ProgramPage" /\ ret = 0 /\ ~LockedOnEntry) => "lk" \notin ctl0
        /\ (fn = "ProgramPage" /\ ret = 1) => "lk" \in ctl0
        /\ fn = "UnInit" => "lk" \in ctl0

\* Init returns unlocked although a failed ProgramPage has left the
\* controller locked with its error flag still set.
C10_Witness ==
    /\ AtReturn("Init")
    /\ LockedOnEntry
    /\ "pg" \in trace[1].bits
    /\ stat0 \cap ErrBits # {}
    /\ "lk" \notin ctl0

\* The accesses the call itself made: the trace without the controller's
\* own reports.
Accesses == SelectSeq(trace, LAMBDA e : e.op # "hw_done")

\* The clock registers as the call found them.
ClockOnEntry == trace[1].val

\* C11: for every fnc and from every controller state UnInit returns 0,
\* and the only register it writes is the flash control register, with its
\* reset value (lock bit set, everything else clear): the clock registers
\* are as they were on entry, and no key, address or status register is
\* written.
C11_UnInitOnlyResetsCtl0 ==
    fn = "UnInit" =>
        /\ rcu_ctl = ClockOnEntry.ctl
        /\ rcu_cfg0 = ClockOnEntry.cfg0
        /\ \A i \in 2..Len(trace) :
              /\ trace[i].op = "wr_ctl0"
              /\ trace[i].bits = {"lk"}
        /\ pc = "done" => /\ ret = 0
                          /\ Len(trace) = 2
                          /\ ctl0 = {"lk"}

C11_Witness ==
    /\ AtReturn("UnInit")
    /\ args.fnc = 2
    /\ "pg" \in trace[1].bits
    /\ "lk" \notin trace[1].bits
    /\ "pllen" \in rcu_ctl
    /\ rcu_cfg0.scs = 2
    /\ stat0 # {}

\* The order of EraseSector's own accesses.
EraseOps ==
    <<"enter", "wr_ctl0", "wr_addr0", "wr_ctl0", "rd_stat0", "wr_ctl0",
      "rd_stat0", "rd_stat0", "wr_stat0">>

\* C12: EraseSector sets per, writes adr to the address register, sets
\* start, reads busy clear, clears per and only then reads the error
\* flags, in this order; when start has just been set the control register
\* has per set and the address register holds adr; the controller's report
\* comes before the first read that sees busy clear.
C12_EraseOrder ==
    fn = "EraseSector" =>
        LET T == Accesses
        IN  /\ Len(T) <= Len(EraseOps)
            /\ \A i \in 1..Len(T) :
                  \/ T[i].op = EraseOps[i]
                  \/ i = 8 /\ T[i].op = "wr_stat0"
            /\ Len(T) >= 2 => T[2].bits = {"per"}
            /\ Len(T) >= 3 => T[3].adr = args.adr
            /\ Len(T) >= 4 => {"per", "start"} \subseteq T[4].bits
            /\ Len(T) >= 5 => "busy" \notin T[5].bits
            /\ Len(T) >= 6 => "per" \notin T[6].bits
            /\ pc = "e40" => /\ {"per", "start"} \subseteq ctl0
                             /\ addr0 = args.adr
                             /\ Len(T) = 4
            /\ \A i \in Ops("rd_stat0") :
                  /\ "busy" \notin trace[i].bits
                  /\ \E d \in Ops("hw_done") : d < i
            /\ \A d \in Ops("hw_done") : \E w \in Ops("wr_ctl0") :
                  w < d /\ "start" \in trace[w].bits
            /\ pc = "done" => Len(T) >= 7

C12_Witness ==
    /\ AtReturn("EraseSector")
    /\ ret = 0
    /\ args.adr = 134218752
    /\ addr0 = 134218752
    /\ Len(Accesses) = 8

\* The order of Init's accesses.
InitOps ==
    <<"enter", "wr_rcu_ctl", "rd_rcu_ctl", "wr_rcu_cfg0", "rd_rcu_cfg0",
      "wr_rcu_ctl", "wr_rcu_cfg0", "wr_rcu_ctl", "rd_rcu_ctl", "wr_rcu_cfg0",
      "rd_rcu_cfg0", "rd_ctl0", "wr_key0", "wr_key0">>

\* C13: Init enables the internal oscillator and reads it stable; selects
\* it as system clock and reads the switch; disables the PLL; writes the
\* prescalers AHB /1 (0b0000), APB1 /2 (0b100), APB2 /1 (0b000), the PLL
\* input select (clear) and the multiplier (bit 4 set, low bits 0b1010);
\* enables the PLL and reads it stable; selects the PLL and reads the
\* switch; and only then reads the lock bit and writes the keys.
C13_InitOrder ==
    fn = "Init" =>
        LET T == trace
            n == Len(trace)
        IN  /\ n <= Len(InitOps)
            /\ \A i \in 1..n : T[i].op = InitOps[i]
            /\ n >= 2 => "irc8men" \in T[2].bits
            /\ n >= 3 => "irc8mstb" \in T[3].bits
            /\ n >= 4 => T[4].val.scs = 0
            /\ n >= 5 => T[5].val.scss = 0
            /\ n >= 6 => "pllen" \notin T[6].bits
            /\ n >= 7 => /\ T[7].val.ahbpsc = 0
                         /\ T[7].val.apb1psc = 4
                         /\ T[7].val.apb2psc = 0
                         /\ T[7].val.pllsel = FALSE
                         /\ T[7].val.pllmf_4 = TRUE
                         /\ T[7].val.pllmf_3_0 = 10
                         /\ T[7].val.scs = 0
            /\ n >= 8 => "pllen" \in T[8].bits
            /\ n >= 9 => {"pllen", "pllstb"} \subseteq T[9].bits
            /\ n >= 10 => T[10].val.scs = 2
            /\ n >= 11 => T[11].val.scss = 2
            /\ pc = "done" => n >= 12

C13_Witness ==
    /\ AtReturn("Init")
    /\ Len(trace) = 14
    /\ "irc8men" \notin ClockOnEntry.ctl
    /\ ClockOnEntry.cfg0.scss = 1

\* A poll loop is left only by a read that sees the awaited value.
PollsWait ==
    /\ (pc = "i86" /\ pc' # "i86") => "irc8mstb" \in rcu_ctl
    /\ (pc = "i88" /\ pc' # "i88") => rcu_cfg0.scss = 0
    /\ (pc = "i100" /\ pc' # "i100") => "pllstb" \in rcu_ctl
    /\ (pc = "i102" /\ pc' # "i102") => rcu_cfg0.scss = 2
    /\ (pc = "e40" /\ pc' # "e40") => "busy" \notin stat0
    /\ (pc = "p141" /\ pc' # "p141") => "busy" \notin stat0

\* C14: no poll loop has a timeout: a call gets past a poll only when the
\* polled bit has the awaited value; when the peripherals eventually
\* deliver every awaited value, every call that was started returns; and
\* Init always returns 0.
C14_CallsComplete ==
    /\ [][PollsWait]_vars
    /\ (pc \notin {"idle", "done"}) ~> (pc = "done")
    /\ [](AtReturn("Init") => ret = 0)

C14_Witness ==
    /\ AtReturn("Init")
    /\ ret = 0
    /\ ClockOnEntry.ctl = {}
    /\ rcu_ctl = {"irc8men", "irc8mstb", "pllen", "pllstb"}
    /\ rcu_cfg0.scss = 2

\* The byte the host has just read from the descriptor, and its offset.
DescRead == pc = "load" /\ trace # << >> /\ trace[1].op = "rd_desc"
ReadOffset == trace[1].adr
ReadByte == trace[1].val[2]

\* Bytes 130..175 of the descriptor laid out without padding after empty:
\* dev_type, dev_addr, device_size, page_size, reserved, empty at 148,
\* program_time_out at 149, erase_time_out at 153, flash_sectors at 157;
\* -1 stands for any value.
PackedTail ==
    <<1, 0,   0, 0, 0, 8,   0, 0, 2, 0,   0, 4, 0, 0,   0, 0, 0, 0,   255,
      100, 0, 0, 0,   112, 23, 0, 0,
      0, 4, 0, 0,   0, 0, 0, 0,
      255, 255, 255, 255,   255, 255, 255, 255,
      -1, -1, -1>>

\* C15 as stated: vers at 0, dev_name at 2, dev_type at 130, dev_addr at
\* 132, device_size at 136, page_size at 140, reserved at 144, empty at
\* 148, program_time_out at 149, erase_time_out at 153 and flash_sectors at
\* 157, with the values of the descriptor.
C15_PackedLayout ==
    DescRead =>
        /\ ReadOffset \in 0..1 => ReadByte = 1
        /\ (ReadOffset \in 130..175 /\ PackedTail[ReadOffset - 129] # -1) =>
              ReadByte = PackedTail[ReadOffset - 129]

\* Bytes 130..175 with the padding of #[repr(C)]: three bytes after empty.
AlignedTail ==
    <<1, 0,   0, 0, 0, 8,   0, 0, 2, 0,   0, 4, 0, 0,   0, 0, 0, 0,   255,
      -1, -1, -1,
      100, 0, 0, 0,   112, 23, 0, 0,
      0, 4, 0, 0,   0, 0, 0, 0,
      255, 255, 255, 255,   255, 255, 255, 255>>

\* C15 (amended): the descriptor has vers at 0, dev_name at 2, dev_type at
\* 130, dev_addr at 132, device_size at 136, page_size at 140, the reserved
\* zero word at 144, empty at 148, then three padding bytes,
\* program_time_out at 152, erase_time_out at 156 and the 512-entry
\* flash_sectors table at 160, with the values vers=0x0101, dev_type=1,
\* dev_addr=0x08000000, device_size=0x00020000, page_size=1024, empty=0xFF,
\* program_time_out=100, erase_time_out=6000, sector entries (0x400, 0)
\* and then the end marker (0xFFFFFFFF, 0xFFFFFFFF) at index 1, every later
\* entry being zero.
C15_AlignedLayout ==
    DescRead =>
        /\ ReadOffset \in 0..1 => ReadByte = 1
        /\ ReadOffset \in 2..5 => ReadByte = <<71, 68, 51, 50>>[ReadOffset - 1]
        /\ ReadOffset \in 33..129 => ReadByte = 0
        /\ (ReadOffset \in 130..175 /\ AlignedTail[ReadOffset - 129] # -1) =>
              ReadByte = AlignedTail[ReadOffset - 129]
        /\ ReadOffset >= 176 => ReadByte = 0

\* The host reads the low byte of erase_time_out (6000 = 0x1770) at 156.
C15_Witness ==
    /\ DescRead
    /\ ReadOffset = 156
    /\ ReadByte = 112

\* C16: the host finds each of Init, UnInit, EraseSector, ProgramPage,
\* PrgData_Start and FlashDevice under exactly this spelling;
\* PrgData_Start lies in section PrgData and FlashDevice in DeviceData.
C16_SymbolsExported ==
    (pc = "load" /\ trace # << >> /\ trace[1].op = "sym") =>
        /\ trace[1].bits # {}
        /\ trace[1].adr = 5 => trace[1].bits = {"PrgData"}
        /\ trace[1].adr = 6 => trace[1].bits = {"DeviceData"}

\* The host has kept to the order Init, (EraseSector | ProgramPage)*, UnInit.
InSession == session \in {"open", "failed"}

\* C17, in the sessions that keep to the host protocol: EraseSector and
\* ProgramPage return 1 only when the controller has reported pgerr or
\* wperr for an erase or a word store of that same call.
C17_FailureOnlyFromOwnError ==
    (InSession /\ pc = "done" /\ ret = 1 /\ fn \in {"EraseSector", "ProgramPage"}) =>
        HwErrors # {}

\* ProgramPage has just made a word store, or EraseSector has just set the
\* start bit.
FlashDriven == pc \in {"p141", "e40"}

\* C18 as stated: in a session that keeps to the host protocol every word
\* store and every setting of the start bit happens with the controller
\* unlocked.
C18_DrivenOnlyUnlocked ==
    (InSession /\ FlashDriven) => "lk" \notin ctl0

\* C18 (amended): in a session that keeps to the host protocol, every word
\* store and every setting of the start bit happens with the controller
\* unlocked as long as no ProgramPage has returned 1 since the last Init;
\* the controller is locked between calls of such a session only after
\* such a failure.
C18_DrivenUnlockedUntilFailure ==
    /\ (session = "open" /\ FlashDriven) => "lk" \notin ctl0
    /\ (session = "open" /\ pc = "idle") => "lk" \notin ctl0
    /\ (session = "failed" /\ pc \in {"idle", "done"}) => "lk" \in ctl0

\* The second word store of a ProgramPage in an open session.
C18_Witness ==
    /\ session = "open"
    /\ fn = "ProgramPage"
    /\ pc = "p141"
    /\ offset = 1
    /\ "lk" \notin ctl0

\* The first write of the control register in the call.
FirstCtlWrite == trace[CHOOSE i \in Ops("wr_ctl0") : \A j \in Ops("wr_ctl0") : i <= j]

\* C19: the control register never has per and pg set together; the write
\* that sets per (in EraseSector) or pg (in ProgramPage) writes every other
\* command bit as zero; per is set only inside EraseSector, between its
\* first and its last write of the control register; every word store of
\* ProgramPage is made with pg set and per clear.
C19_PerAndPgExclusive ==
    /\ ~({"per", "pg"} \subseteq ctl0)
    /\ \A i \in Ops("wr_ctl0") : ~({"per", "pg"} \subseteq trace[i].bits)
    /\ (fn = "EraseSector" /\ Ops("wr_ctl0") # {}) => FirstCtlWrite.bits = {"per"}
    /\ (fn = "ProgramPage" /\ Ops("wr_ctl0") # {}) => FirstCtlWrite.bits = {"pg"}
    /\ "per" \in ctl0 => (fn = "EraseSector" /\ pc \in {"e37", "e39", "e40", "e44"})
    /\ pc \in {"p140", "p141"} => ("pg" \in ctl0 /\ "per" \notin ctl0)

\* EraseSector has set per where a ProgramPage had left pg set.
C19_Witness ==
    /\ fn = "EraseSector"
    /\ pc = "e40"
    /\ "pg" \in trace[1].bits
    /\ "per" \in ctl0
    /\ "pg" \notin ctl0

\* C20: at every point of Init the PLL is selected as system clock source
\* only while it is enabled and reports stable, and the write that selects
\* it follows a read that saw it stable; the prescalers and the PLL input
\* and multiplier are written only with the PLL disabled and after a read
\* that saw the internal oscillator as the active source, which it still
\* is at the write.
C20_ClockSwitchSafe ==
    fn = "Init" =>
        /\ rcu_cfg0.scs = 2 => {"pllen", "pllstb"} \subseteq rcu_ctl
        /\ pc = "i101" => /\ {"pllen", "pllstb"} \subseteq rcu_ctl
                          /\ trace[Len(trace)].op = "rd_rcu_ctl"
                          /\ "pllstb" \in trace[Len(trace)].bits
        /\ pc = "i90" => /\ "pllen" \notin rcu_ctl
                         /\ rcu_cfg0.scs = 0
                         /\ rcu_cfg0.scss = 0
                         /\ \E r \in Ops("rd_rcu_cfg0") : trace[r].val.scss = 0
        /\ \A w \in Ops("wr_rcu_cfg0") :
              trace[w].val.scss # 0 => trace[w].val.ahbpsc = ClockOnEntry.cfg0.ahbpsc
                                        /\ trace[w].val.apb1psc = ClockOnEntry.cfg0.apb1psc
                                        /\ trace[w].val.pllmf_4 = ClockOnEntry.cfg0.pllmf_4
                                        /\ trace[w].val.pllmf_3_0 = ClockOnEntry.cfg0.pllmf_3_0

\* A second Init, entered with the PLL as system clock, is about to write
\* the prescalers.
C20_Witness ==
    /\ fn = "Init"
    /\ pc = "i90"
    /\ ClockOnEntry.cfg0.scss = 2
    /\ "pllen" \in ClockOnEntry.ctl
    /\ "pllen" \notin rcu_ctl
====
